---- MODULE Spec2Model ----
(***************************************************************************)
(* A model of the raster enrichment pipeline of data-map:                  *)
(*   src/enrich_with_rasters.py  point sampling, tile naming, the          *)
(*                               enrichment passes and the NDVI imputer    *)
(*   src/cluster.py              cluster_environmental                     *)
(*                                                                         *)
(* Conventions.                                                            *)
(*   - Python None / pandas NaN / NaT is None == <<>>; a present value v   *)
(*     is the one-element tuple <<v>>.                                     *)
(*   - Coordinates are integers in tenths of a degree.                     *)
(*   - Dates are integer day numbers.                                      *)
(*   - Sampled numbers are fixed-point integers in units of 1/NDVI_SCALE,  *)
(*     so that raw * (1/10000) is representable: scale_factor 1.0 is the   *)
(*     integer NDVI_SCALE and scale_factor 1/10000 is the integer 1.       *)
(***************************************************************************)
EXTENDS Integers, Sequences, FiniteSets, TLC

VARIABLES
    df,        \* the observation table held by the caller (main's `df`)
    files,     \* the source files on disk
    err,       \* the exception that escaped the last call, or "none"
    hist,      \* the passes called so far, in order
    invoked,   \* <<function, uuid>> for every sampler / resolver call made for a row
    assigned,  \* the labels the partitioning method returned (uuid -> label)
    call,      \* the call under test: its name and its arguments besides df
    ret,       \* what a sampler or resolver call under test returned
    df0        \* the table as the latest pass received it

vars == <<df, files, err, hist, invoked, assigned, call, ret, df0>>

----------------------------------------------------------------------------
(* Values *)

None == <<>>
Num(v) == <<v>>
IsNull(x) == x = None
Val(x) == x[1]
Abs(n) == IF n < 0 THEN -n ELSE n

\* 10000.0 of get_ndvi_from_raster; also the fixed-point unit of sampled values.
NDVI_SCALE == 10000
\* scale_factor=1.0, the default of sample_raster_value, in fixed point.
DefaultScale == NDVI_SCALE

----------------------------------------------------------------------------
(* Raster sources (the rasterio dataset interface the samplers use) *)

\* Bounds of the rasters under test: height and width in pixels.
GridH == 2
GridW == 2

\* Raw pixel values that occur in the rasters under test.
RawValues == <<0, 10, 255, 5000, -9999>>

\* src.read(1): the band as a grid; the content is fixed by the raster's seed.
Cell(src, r, c) ==
    RawValues[((src.seed + r * src.width + c) % Len(RawValues)) + 1]

\* rasterio.warp.transform('EPSG:4326', src.crs, ...) followed by
\* src.index(x, y): every raster of this repository is stored in EPSG:4326
\* (fetch.py exports with crs="EPSG:4326"), so x = lon, y = lat, and the
\* pixel is the floor of the offset from the upper-left corner over the
\* pixel size.
PixelIndex(src, lon, lat) ==
    [row |-> (src.top - lat) \div src.res, col |-> (lon - src.left) \div src.res]

InExtent(src, row, col) ==
    0 <= row /\ row < src.height /\ 0 <= col /\ col < src.width

\* numpy's arr[row, col]: a negative index counts from the end, an index
\* outside -n..n-1 raises IndexError.
NumpyIndex(src, row, col) ==
    IF /\ -src.height <= row /\ row < src.height
       /\ -src.width <= col /\ col < src.width
    THEN Num(Cell(src, (row + src.height) % src.height,
                       (col + src.width) % src.width))
    ELSE None   \* IndexError

\* sample_raster_value(tif_path, lon, lat, scale_factor, nodata_val)
\* `src` is what rasterio.open(tif_path) gives; a file that is absent or
\* corrupt makes rasterio.open raise, a null coordinate makes src.index
\* raise (math.floor of NaN); both are caught by the except clause.
sample_raster_value_MutNoOverride(src, lon, lat, scale_factor, nodata_val) ==
    IF src.status # "ok" \/ IsNull(lon) \/ IsNull(lat) THEN None
    ELSE LET p == PixelIndex(src, Val(lon), Val(lat)) IN
         IF ~InExtent(src, p.row, p.col) THEN None
         ELSE LET value == Cell(src, p.row, p.col) IN
              IF ~IsNull(src.nodata) /\ value = Val(src.nodata) THEN None
              ELSE Num(value * scale_factor)

sample_raster_value(src, lon, lat, scale_factor, nodata_val) ==
    IF src.status # "ok" \/ IsNull(lon) \/ IsNull(lat) THEN None
    ELSE LET p == PixelIndex(src, Val(lon), Val(lat)) IN
         IF ~InExtent(src, p.row, p.col) THEN None
         ELSE LET value == Cell(src, p.row, p.col) IN
              IF ~IsNull(nodata_val) /\ value = Val(nodata_val) THEN None
              ELSE IF ~IsNull(src.nodata) /\ value = Val(src.nodata) THEN None
              ELSE Num(value * scale_factor)

\* get_ndvi_from_raster(tif_path, lon, lat): no bounds check before the
\* read; `ndvi_value != src.nodata` is true when src.nodata is None.
\* ndvi_value / 10000.0 is the raw value itself in fixed point.
get_ndvi_from_raster(src, lon, lat) ==
    IF src.status # "ok" \/ IsNull(lon) \/ IsNull(lat) THEN None
    ELSE LET p == PixelIndex(src, Val(lon), Val(lat))
             ndvi_value == NumpyIndex(src, p.row, p.col)
         IN  IF IsNull(ndvi_value) THEN None      \* IndexError, caught
             ELSE IF IsNull(src.nodata) \/ Val(ndvi_value) # Val(src.nodata)
                  THEN Num(Val(ndvi_value))
                  ELSE None

----------------------------------------------------------------------------
(* Tile resolver *)

\* Tiles start at whole degrees divisible by 3.
TILE_DEG == 3

\* f"{n:0{w}d}" for n >= 0: the decimal digits, zero-padded on the left to
\* at least w characters.
RECURSIVE ZeroPad(_, _)
ZeroPad(s, w) == IF Len(s) >= w THEN s ELSE ZeroPad("0" \o s, w)

FormatD(n, w) == ZeroPad(ToString(n), w)

\* math.floor(coord / 3) * 3, coord in tenths of a degree.
TileOriginMutTrunc(coord) ==
    IF coord >= 0 THEN (coord \div (TILE_DEG * 10)) * TILE_DEG
    ELSE -(((-coord) \div (TILE_DEG * 10)) * TILE_DEG)

TileOrigin(coord) == (coord \div (TILE_DEG * 10)) * TILE_DEG

get_worldcover_tile_name(lat, lon) ==
    LET lat_deg == TileOrigin(lat)
        lon_deg == TileOrigin(lon)
        lat_prefix == IF lat_deg >= 0 THEN "N" ELSE "S"
        lon_prefix == IF lon_deg >= 0 THEN "E" ELSE "W"
        lat_str == FormatD(Abs(lat_deg), 2)
        lon_str == FormatD(Abs(lon_deg), 3)
    IN  "ESA_WorldCover_10m_2020_v100_" \o lat_prefix \o lat_str
            \o lon_prefix \o lon_str \o "_Map.tif"

----------------------------------------------------------------------------
(* The observation table *)

\* Number of rows of the tables under test.
NRows == 3

\* range(7) of enrich_with_precip: the lookback offsets 0..6.
PRECIP_DAYS == 7

Offsets == 0 .. (PRECIP_DAYS - 1)

NoPrecip == [k \in Offsets |-> None]

\* One observation. uuid is the row's identity: the 'uuid' column, which is
\* one-to-one with the index label read_csv gave the row.
Row(uuid, date, lat, lon) ==
    [uuid |-> uuid, date |-> date, lat |-> lat, lon |-> lon,
     ndvi |-> None, soil_moisture |-> None, prcp |-> NoPrecip,
     land_cover |-> None, land_cover_label |-> None, cluster |-> None]

\* A DataFrame: its columns, the dtype of 'date' (str as read from the CSV,
\* or datetime64 after pd.to_datetime) and its rows in order.
Table(cols, date_ts, rows) == [cols |-> cols, date_ts |-> date_ts, rows |-> rows]

BaseCols == {"uuid", "date", "lat", "lon"}
PrecipCols == {"prcp_d" \o ToString(k) : k \in Offsets}

Uuids(t) == [i \in 1 .. Len(t.rows) |-> t.rows[i].uuid]

\* What a pass returns to its caller: the table the caller now holds, the
\* exception that escaped (or "none"), and the per-row calls it made.
Outcome(t, e, inv) == [df |-> t, err |-> e, invoked |-> inv]

----------------------------------------------------------------------------
(* Source files *)

\* str(date) as it is pasted into a file name: "2024-05-01" for a str
\* cell, "2024-05-01 00:00:00" for a Timestamp cell.
DateText(day, date_ts) == [day |-> day, fmt |-> IF date_ts THEN "timestamp" ELSE "iso"]

\* f"{lat:.4f}": four decimals; "nan" for a null coordinate.
Fmt4(coord) == IF IsNull(coord) THEN "nan" ELSE ToString(Val(coord) * 1000)

\* The NDVI export of a day is a small raster around the location it was
\* requested for (fetch_sentinel2_ndvi: point.buffer(500).bounds()).
NdviRaster(f, day) ==
    [status |-> f.status, left |-> f.lon - 1, top |-> f.lat + 1, res |-> 1,
     height |-> GridH, width |-> GridW, nodata |-> None, seed |-> day]

\* os.path.exists(ndvi_path) and the raster behind the path.
NdviPath(fs, text, lat, lon) ==
    LET f == fs.ndvi[text.day] IN
    IF /\ text.fmt = "iso" /\ f.status # "absent"
       /\ Fmt4(lat) = Fmt4(Num(f.lat)) /\ Fmt4(lon) = Fmt4(Num(f.lon))
    THEN NdviRaster(f, text.day)
    ELSE [status |-> "absent"]

\* os.path.exists(soil_path): soil_{date_str}.nc
SoilPath(fs, text) ==
    IF text.fmt = "iso" THEN fs.soil[text.day] ELSE "absent"

\* The daily CHIRPS raster precip_{YYYY-MM-DD}.tif: global, nodata -9999.
PrecipRaster(fs, day) ==
    [status |-> IF day \in DOMAIN fs.precip THEN fs.precip[day] ELSE "absent",
     left |-> -1800, top |-> 500, res |-> 1, height |-> 1000, width |-> 3600,
     nodata |-> Num(-9999), seed |-> day]

\* A WorldCover tile: 3 x 3 degrees from its origin.
TileRaster(fs, lat, lon) ==
    [status |-> IF get_worldcover_tile_name(lat, lon) \in fs.tiles
                THEN "ok" ELSE "absent",
     left |-> TileOrigin(lon) * 10, top |-> (TileOrigin(lat) + TILE_DEG) * 10,
     res |-> 1, height |-> TILE_DEG * 10, width |-> TILE_DEG * 10,
     nodata |-> Num(0), seed |-> 4]

----------------------------------------------------------------------------
(* Soil moisture *)

\* The ERA5-Land request area of fetch.py ('area': [42, -106, 39, -102]).
SoilArea == [north |-> 420, west |-> -1060, south |-> 390, east |-> -1020]

\* extract_soil_moisture(ds, lat, lon, date_str). ds is the opened dataset:
\* "ok" has a 'time' or 'valid_time' dimension, "nodim" has neither (the
\* ValueError is raised and caught inside the function). The interpolated
\* value is a fixed function of the place and day; outside the grid
\* interp gives NaN.
extract_soil_moisture(ds, lat, lon, day) ==
    IF ds # "ok" \/ IsNull(lat) \/ IsNull(lon) THEN None
    ELSE IF /\ SoilArea.south <= Val(lat) /\ Val(lat) <= SoilArea.north
            /\ SoilArea.west <= Val(lon) /\ Val(lon) <= SoilArea.east
         THEN Num(1000 + ((Val(lat) + Val(lon) + day) % 7) * 100)
         ELSE None

----------------------------------------------------------------------------
(* enrich_df_with_rasters *)

SetToSortedSeq(S) ==
    [p \in 1 .. Cardinality(S) |->
        CHOOSE x \in S : Cardinality({y \in S : y < x}) = p - 1]

\* Positions of the rows whose date cell equals `day`.
RowsOfDate(rows, day) == {i \in 1 .. Len(rows) : rows[i].date = Num(day)}

MinOf(S) == CHOOSE x \in S : \A y \in S : x <= y

\* One iteration of `for date_str in unique_dates` (lines 210-238) on the
\* state st = [rows, err, invoked].
RastersForDate(fs, date_ts, st, day) ==
    LET group == RowsOfDate(st.rows, day)
        first == st.rows[MinOf(group)]
        text == DateText(day, date_ts)
        ndvi_src == NdviPath(fs, text, first.lat, first.lon)
        soil_ds == SoilPath(fs, text)
        has_ndvi == ndvi_src.status # "absent"
        has_soil == soil_ds # "absent"
    IN  IF ~has_ndvi /\ ~has_soil THEN st
        ELSE IF has_soil /\ soil_ds = "corrupt"
             \* load_soil_moisture_dataset: xr.open_dataset raises, uncaught
             THEN [st EXCEPT !.err = "OSError"]
        ELSE [rows |-> [i \in 1 .. Len(st.rows) |->
                    IF i \notin group THEN st.rows[i]
                    ELSE [st.rows[i] EXCEPT
                            !.ndvi = IF has_ndvi
                                     THEN get_ndvi_from_raster(ndvi_src, st.rows[i].lon, st.rows[i].lat)
                                     ELSE @,
                            !.soil_moisture =
                                     IF has_soil
                                     THEN extract_soil_moisture(soil_ds, st.rows[i].lat, st.rows[i].lon, day)
                                     ELSE @]],
                  err |-> "none",
                  invoked |-> st.invoked
                      \cup (IF has_ndvi THEN {<<"get_ndvi_from_raster", st.rows[i].uuid>> : i \in group} ELSE {})
                      \cup (IF has_soil THEN {<<"extract_soil_moisture", st.rows[i].uuid>> : i \in group} ELSE {})]

\* The loop over unique_dates; an escaped exception ends it.
RECURSIVE RastersLoop(_, _, _, _)
RastersLoop(fs, date_ts, st, dates) ==
    IF dates = <<>> \/ st.err # "none" THEN st
    ELSE RastersLoop(fs, date_ts, RastersForDate(fs, date_ts, st, Head(dates)), Tail(dates))

\* enrich_df_with_rasters(df, ndvi_dir, soil_dir). The table is mutated in
\* place, so what was written before an exception stays written.
enrich_df_with_rasters(t, fs) ==
    LET rows0 == [i \in 1 .. Len(t.rows) |->
                    [t.rows[i] EXCEPT !.ndvi = None, !.soil_moisture = None]]
        unique_dates == SetToSortedSeq({Val(rows0[i].date) :
                            i \in {j \in 1 .. Len(rows0) : ~IsNull(rows0[j].date)}})
        st == RastersLoop(fs, t.date_ts,
                          [rows |-> rows0, err |-> "none", invoked |-> {}],
                          unique_dates)
    IN  Outcome(Table(t.cols \cup {"ndvi", "soil_moisture"}, t.date_ts, st.rows),
                st.err, st.invoked)

----------------------------------------------------------------------------
(* enrich_with_precip *)

\* The value written to prcp_d{k} of one row (lines 67-81). The loops
\* write each (row, k) cell at most once: unique_dates holds each date
\* once and a row belongs to the group of its own date only. The target
\* date is formatted with strftime('%Y-%m-%d') whatever the dtype of the
\* 'date' column is.
PrecipCellMutShift(fs, row, k) ==
    IF IsNull(row.date) THEN None
    ELSE LET src == PrecipRaster(fs, Val(row.date) - k - 1) IN
         IF src.status = "absent" THEN None
         ELSE sample_raster_value(src, row.lon, row.lat, DefaultScale, None)

PrecipCell(fs, row, k) ==
    IF IsNull(row.date) THEN None
    ELSE LET src == PrecipRaster(fs, Val(row.date) - k) IN
         IF src.status = "absent" THEN None       \* `continue`
         ELSE sample_raster_value(src, row.lon, row.lat, DefaultScale, None)

enrich_with_precip(t, fs) ==
    LET rows1 == [i \in 1 .. Len(t.rows) |->
                    [t.rows[i] EXCEPT !.prcp = [k \in Offsets |-> PrecipCell(fs, t.rows[i], k)]]]
        inv == {<<"sample_raster_value", t.rows[i].uuid>> :
                    i \in {j \in 1 .. Len(t.rows) :
                            /\ ~IsNull(t.rows[j].date)
                            /\ \E k \in Offsets :
                                 PrecipRaster(fs, Val(t.rows[j].date) - k).status # "absent"}}
    IN  Outcome(Table(t.cols \cup PrecipCols, t.date_ts, rows1), "none", inv)

----------------------------------------------------------------------------
(* enrich_with_worldcover, add_worldcover_labels *)

\* One iteration of `for idx, row in df.iterrows()` (lines 101-111) for the
\* row at position i. math.floor(lat / 3) raises ValueError for NaN.
WorldcoverForRow(fs, st, i) ==
    LET row == st.rows[i]
        inv == st.invoked \cup {<<"get_worldcover_tile_name", row.uuid>>}
    IN  IF IsNull(row.lat) \/ IsNull(row.lon)
        THEN [st EXCEPT !.err = "ValueError", !.invoked = inv]
        ELSE LET src == TileRaster(fs, Val(row.lat), Val(row.lon)) IN
             IF src.status = "absent" THEN [st EXCEPT !.invoked = inv]
             ELSE [rows |-> [st.rows EXCEPT ![i].land_cover =
                                sample_raster_value(src, row.lon, row.lat, DefaultScale, Num(255))],
                   err |-> "none",
                   invoked |-> inv \cup {<<"sample_raster_value", row.uuid>>}]

RECURSIVE WorldcoverLoop(_, _, _)
WorldcoverLoop(fs, st, i) ==
    IF i > Len(st.rows) \/ st.err # "none" THEN st
    ELSE WorldcoverLoop(fs, WorldcoverForRow(fs, st, i), i + 1)

enrich_with_worldcover(t, fs) ==
    LET rows0 == [i \in 1 .. Len(t.rows) |-> [t.rows[i] EXCEPT !.land_cover = None]]
        st == WorldcoverLoop(fs, [rows |-> rows0, err |-> "none", invoked |-> {}], 1)
    IN  Outcome(Table(t.cols \cup {"land_cover"}, t.date_ts, st.rows), st.err, st.invoked)

\* ESA_WORLDCOVER_CLASSES
ESA_WORLDCOVER_CLASSES ==
    [code \in {10, 20, 30, 40, 50, 60, 70, 80, 90, 95, 100} |->
        CASE code = 10 -> "Tree cover"
          [] code = 20 -> "Shrubland"
          [] code = 30 -> "Grassland"
          [] code = 40 -> "Cropland"
          [] code = 50 -> "Built-up"
          [] code = 60 -> "Bare / sparse vegetation"
          [] code = 70 -> "Snow and ice"
          [] code = 80 -> "Water"
          [] code = 90 -> "Wetland"
          [] code = 95 -> "Mangroves"
          [] code = 100 -> "Moss and lichen"]

\* Series.map(dict): the label of the class code, NaN for a null or
\* unmapped cell. The cell holds code * scale_factor in fixed point.
LabelOf(land_cover) ==
    IF IsNull(land_cover) THEN None
    ELSE IF /\ Val(land_cover) % DefaultScale = 0
            /\ (Val(land_cover) \div DefaultScale) \in DOMAIN ESA_WORLDCOVER_CLASSES
         THEN Num(ESA_WORLDCOVER_CLASSES[Val(land_cover) \div DefaultScale])
         ELSE None

\* add_worldcover_labels(df): df['land_cover'] raises KeyError when the
\* column is missing.
add_worldcover_labels(t, fs) ==
    IF "land_cover" \notin t.cols THEN Outcome(t, "KeyError", {})
    ELSE Outcome(Table(t.cols \cup {"land_cover_label"}, t.date_ts,
                       [i \in 1 .. Len(t.rows) |->
                            [t.rows[i] EXCEPT !.land_cover_label = LabelOf(t.rows[i].land_cover)]]),
                 "none", {})

----------------------------------------------------------------------------
(* fill_missing_ndvi *)

\* df.sort_values('date'): ascending, NaT last. pandas' default kind is
\* numpy's quicksort, which sorts arrays of at most 16 elements by
\* insertion and so keeps equal dates in their order for the tables here.
DateBefore(rows, i, j) ==
    \/ ~IsNull(rows[i].date) /\ IsNull(rows[j].date)
    \/ ~IsNull(rows[i].date) /\ ~IsNull(rows[j].date) /\ Val(rows[i].date) < Val(rows[j].date)
    \/ rows[i].date = rows[j].date /\ i < j

SortByDate(rows) ==
    [p \in 1 .. Len(rows) |->
        rows[CHOOSE i \in 1 .. Len(rows) :
                Cardinality({j \in 1 .. Len(rows) : DateBefore(rows, j, i)}) = p - 1]]

\* abs((d - date).days); NaN when either date is NaT.
DateDiff(d, date) ==
    IF IsNull(d) \/ IsNull(date) THEN None ELSE Num(Abs(Val(d) - Val(date)))

\* The candidates of `row` within the window (lines 180-191): positions of
\* the rows of the current table with a non-null ndvi at the same lat and
\* lon (NaN equals nothing) and a date_diff <= max_days_gap.
Nearest(rows, row, max_days_gap) ==
    {j \in 1 .. Len(rows) :
        /\ ~IsNull(rows[j].ndvi)
        /\ ~IsNull(row.lat) /\ rows[j].lat = row.lat
        /\ ~IsNull(row.lon) /\ rows[j].lon = row.lon
        /\ ~IsNull(DateDiff(rows[j].date, row.date))
        /\ Val(DateDiff(rows[j].date, row.date)) <= max_days_gap}

\* nearest.sort_values('date_diff').iloc[0]: the smallest date_diff, the
\* earliest position among equals.
NearestFirst(rows, row, near) ==
    CHOOSE j \in near :
        \A m \in near :
            LET dj == Val(DateDiff(rows[j].date, row.date))
                dm == Val(DateDiff(rows[m].date, row.date))
            IN  dj < dm \/ (dj = dm /\ j <= m)

\* One iteration of `for idx, row in df[df['ndvi'].isnull()].iterrows()`
\* for the row at position i of the sorted table; the candidates are read
\* from the table as the earlier iterations left it.
FillRow(rows, i, max_days_gap) ==
    LET near == Nearest(rows, rows[i], max_days_gap) IN
    IF near = {} THEN rows
    ELSE [rows EXCEPT ![i].ndvi = rows[NearestFirst(rows, rows[i], near)].ndvi]

\* The loop over the rows that were null when the loop started (`todo`,
\* positions in ascending order).
RECURSIVE FillLoop(_, _, _)
FillLoop(rows, todo, max_days_gap) ==
    IF todo = <<>> THEN rows
    ELSE FillLoop(FillRow(rows, Head(todo), max_days_gap), Tail(todo), max_days_gap)

\* fill_missing_ndvi(df, max_days_gap). Line 171 converts the caller's
\* 'date' column in place; the sorted copy is what is returned. A table
\* without an 'ndvi' column raises KeyError at line 174, after line 171.
fill_missing_ndvi(t, max_days_gap) ==
    IF "ndvi" \notin t.cols THEN Outcome(Table(t.cols, TRUE, t.rows), "KeyError", {})
    ELSE LET sorted == SortByDate(t.rows)
             todo == SetToSortedSeq({i \in 1 .. Len(sorted) : IsNull(sorted[i].ndvi)})
         IN  Outcome(Table(t.cols, TRUE, FillLoop(sorted, todo, max_days_gap)), "none", {})

----------------------------------------------------------------------------
(* cluster_environmental *)

\* The default `features` list (cluster.py lines 9-13).
FeaturesNonNull(row) ==
    /\ ~IsNull(row.ndvi)
    /\ ~IsNull(row.soil_moisture)
    /\ \A k \in Offsets : ~IsNull(row.prcp[k])

FeatureCols == {"ndvi", "soil_moisture"} \cup PrecipCols

\* df.dropna(subset=features): the positions kept for the fit.
FitSetMutAny(rows) ==
    {i \in 1 .. Len(rows) : ~IsNull(rows[i].ndvi)}

FitSet(rows) == {i \in 1 .. Len(rows) : FeaturesNonNull(rows[i])}

\* df.merge(df_cluster[['uuid', 'cluster']], on='uuid', how='left'): every
\* left row in order, once per right row with its uuid, or once with NaN
\* when there is none. `labels` maps a fit position to its label.
RECURSIVE MergeLeft(_, _, _, _)
MergeLeft(rows, fit, labels, i) ==
    IF i > Len(rows) THEN <<>>
    ELSE LET matches == SetToSortedSeq({j \in fit : rows[j].uuid = rows[i].uuid}) IN
         (IF matches = <<>>
          THEN << [rows[i] EXCEPT !.cluster = None] >>
          ELSE [m \in 1 .. Len(matches) |-> [rows[i] EXCEPT !.cluster = Num(labels[matches[m]])]])
         \o MergeLeft(rows, fit, labels, i + 1)

\* cluster_environmental(df, features=None, n_clusters). `labels` is what
\* kmeans.fit_predict returned for the fit rows. StandardScaler raises
\* ValueError on an empty fit set and KMeans when there are fewer samples
\* than clusters; dropna raises KeyError when a feature column is missing.
cluster_environmental(t, n_clusters, labels) ==
    IF ~(FeatureCols \subseteq t.cols) THEN Outcome(t, "KeyError", {})
    ELSE LET fit == FitSet(t.rows) IN
         IF Cardinality(fit) = 0 \/ Cardinality(fit) < n_clusters
         THEN Outcome(t, "ValueError", {})
         ELSE Outcome(Table(t.cols \cup {"cluster"}, t.date_ts,
                            MergeLeft(t.rows, fit, labels, 1)),
                      "none", {})

----------------------------------------------------------------------------
(* Inputs *)

\* Rows of the tables the whole pipeline is run on.
PipelineRows == 2

\* max_days_gap=7 of the call in __main__.
MAIN_MAX_DAYS_GAP == 7

NullLoc == [lat |-> None, lon |-> None]
LocA == [lat |-> Num(405), lon |-> Num(-1053)]
\* LocB lies two pixels north of LocA: outside the NDVI raster exported for LocA.
LocB == [lat |-> Num(407), lon |-> Num(-1054)]
\* LocC lies south of the soil moisture area and in another WorldCover tile.
LocC == [lat |-> Num(380), lon |-> Num(-1051)]

EmptyTable == Table(BaseCols, FALSE, <<>>)
NoFiles == [ndvi |-> <<>>, soil |-> <<>>, precip |-> [d \in {} |-> "ok"], tiles |-> {}]
Pending == [state |-> "pending"]
Returned(v) == [state |-> "returned", value |-> v]

\* The order of the passes in __main__ (lines 258-265).
MainOrder == <<"enrich_df_with_rasters", "enrich_with_precip", "enrich_with_worldcover",
               "add_worldcover_labels", "fill_missing_ndvi">>

\* Tables as read from the CSV: n rows, uuid i at position i.
InputTables(n, dateCells, locCells) ==
    {Table(BaseCols, FALSE, [i \in 1 .. n |-> Row(i, d[i], l[i].lat, l[i].lon)]) :
        d \in [1 .. n -> dateCells], l \in [1 .. n -> locCells]}

PipelineDays == {1, 2}

NdviFileStates ==
    {[status |-> st, lat |-> Val(LocA.lat), lon |-> Val(LocA.lon)] : st \in {"absent", "ok", "corrupt"}}

PipelineFiles ==
    [ndvi : [PipelineDays -> NdviFileStates],
     soil : [PipelineDays -> {"absent", "ok", "corrupt", "nodim"}],
     precip : {[d \in {} |-> "ok"], [d \in (1 - PRECIP_DAYS) .. 2 |-> "ok"]},
     tiles : {{}, {get_worldcover_tile_name(Val(LocA.lat), Val(LocA.lon))}}]

----------------------------------------------------------------------------
(* The passes as steps of the caller *)

\* `df = f(df, ...)` as the next call of the schedule: the caller now
\* holds what the pass returned, or, after an exception, the table the
\* pass had mutated in place so far.
Due(name) ==
    /\ err = "none"
    /\ Len(hist) < Len(call.schedule)
    /\ call.schedule[Len(hist) + 1] = name

Step(name, out) ==
    /\ df' = out.df
    /\ err' = out.err
    /\ invoked' = invoked \cup out.invoked
    /\ hist' = Append(hist, name)
    /\ df0' = df
    /\ UNCHANGED <<files, call, ret>>

EnrichDfWithRasters ==
    /\ Due("enrich_df_with_rasters")
    /\ Step("enrich_df_with_rasters", enrich_df_with_rasters(df, files))
    /\ UNCHANGED assigned

EnrichWithPrecip ==
    /\ Due("enrich_with_precip")
    /\ Step("enrich_with_precip", enrich_with_precip(df, files))
    /\ UNCHANGED assigned

EnrichWithWorldcover ==
    /\ Due("enrich_with_worldcover")
    /\ Step("enrich_with_worldcover", enrich_with_worldcover(df, files))
    /\ UNCHANGED assigned

AddWorldcoverLabels ==
    /\ Due("add_worldcover_labels")
    /\ Step("add_worldcover_labels", add_worldcover_labels(df, files))
    /\ UNCHANGED assigned

FillMissingNdvi ==
    /\ Due("fill_missing_ndvi")
    /\ Step("fill_missing_ndvi", fill_missing_ndvi(df, call.max_days_gap))
    /\ UNCHANGED assigned

ClusterEnvironmental ==
    /\ Due("cluster_environmental")
    /\ \E labels \in [FitSet(df.rows) -> 0 .. (call.n_clusters - 1)] :
          /\ Step("cluster_environmental", cluster_environmental(df, call.n_clusters, labels))
          /\ assigned' = [u \in {df.rows[i].uuid : i \in FitSet(df.rows)} |->
                             labels[CHOOSE i \in FitSet(df.rows) : df.rows[i].uuid = u]]

\* A sampler or resolver called on its own.
SampleRasterValue ==
    /\ call.fn = "sample_raster_value" /\ ret = Pending
    /\ ret' = Returned(sample_raster_value(call.src, call.lon, call.lat,
                                           call.scale_factor, call.nodata_val))
    /\ UNCHANGED <<df, files, err, hist, invoked, assigned, call, df0>>

GetNdviFromRaster ==
    /\ call.fn = "get_ndvi_from_raster" /\ ret = Pending
    /\ ret' = Returned(get_ndvi_from_raster(call.src, call.lon, call.lat))
    /\ UNCHANGED <<df, files, err, hist, invoked, assigned, call, df0>>

GetWorldcoverTileName ==
    /\ call.fn = "get_worldcover_tile_name" /\ ret = Pending
    /\ ret' = Returned(get_worldcover_tile_name(call.lat, call.lon))
    /\ UNCHANGED <<df, files, err, hist, invoked, assigned, call, df0>>

----------------------------------------------------------------------------
(* The pipeline of __main__ *)

Quiet ==
    /\ err = "none" /\ hist = <<>> /\ invoked = {} /\ assigned = <<>> /\ ret = Pending

Init ==
    /\ df \in InputTables(PipelineRows, {None, Num(1), Num(2)}, {NullLoc, LocA, LocB})
    /\ df0 = df
    /\ files \in PipelineFiles
    /\ call = [fn |-> "main", schedule |-> MainOrder, max_days_gap |-> MAIN_MAX_DAYS_GAP]
    /\ Quiet

Next ==
    \/ EnrichDfWithRasters
    \/ EnrichWithPrecip
    \/ EnrichWithWorldcover
    \/ AddWorldcoverLabels
    \/ FillMissingNdvi

Spec == Init /\ [][Next]_vars

----------------------------------------------------------------------------
(* Helpers of the properties *)

Last(seq) == seq[Len(seq)]

HasNullKey(row) == IsNull(row.date) \/ IsNull(row.lat) \/ IsNull(row.lon)

RowOf(t, u) == t.rows[CHOOSE i \in 1 .. Len(t.rows) : t.rows[i].uuid = u]

UuidSet(t) == {t.rows[i].uuid : i \in 1 .. Len(t.rows)}

Covariates(row) ==
    <<row.ndvi, row.soil_moisture, row.prcp, row.land_cover, row.land_cover_label>>

\* The table as it was read from the CSV, recovered from the key columns,
\* which no pass writes.
AsRead(t) ==
    Table(BaseCols, FALSE,
          [p \in 1 .. Len(t.rows) |->
              LET r == RowOf(t, SetToSortedSeq(UuidSet(t))[p])
              IN  Row(r.uuid, r.date, r.lat, r.lon)])

RECURSIVE RowsWithKeys(_)
RowsWithKeys(rows) ==
    IF rows = <<>> THEN <<>>
    ELSE (IF HasNullKey(Head(rows)) THEN <<>> ELSE <<Head(rows)>>) \o RowsWithKeys(Tail(rows))

ApplyPass(name, t, fs, gap) ==
    CASE name = "enrich_df_with_rasters" -> enrich_df_with_rasters(t, fs)
      [] name = "enrich_with_precip" -> enrich_with_precip(t, fs)
      [] name = "enrich_with_worldcover" -> enrich_with_worldcover(t, fs)
      [] name = "add_worldcover_labels" -> add_worldcover_labels(t, fs)
      [] name = "fill_missing_ndvi" -> fill_missing_ndvi(t, gap)

\* The passes `names` run one after the other on t, stopping at an exception.
RECURSIVE RunPasses(_, _, _, _)
RunPasses(names, t, fs, gap) ==
    IF names = <<>> THEN Outcome(t, "none", {})
    ELSE LET out == ApplyPass(Head(names), t, fs, gap) IN
         IF out.err # "none" THEN out
         ELSE LET rest == RunPasses(Tail(names), out.df, fs, gap) IN
              Outcome(rest.df, rest.err, out.invoked \cup rest.invoked)

EnrichmentPasses == SubSeq(MainOrder, 1, 4)

----------------------------------------------------------------------------
(* Claims on the pipeline *)

\* C2: no enrichment or imputation pass removes or reorders rows: the
\* table a pass returns has the identifiers of the table it was given, as
\* many rows, in the same order.
C2_RowsKeptInOrder ==
    (hist # <<>> /\ err = "none") => Uuids(df) = Uuids(df0)

\* C6: a row with a null date, lat or lon is excluded from enrichment but
\* retained: no pass raises on a table holding such a row, no sampler or
\* tile resolver is invoked for the row, the row stays in the table with
\* null covariates, and the other rows are enriched as they would be
\* without it.
C6_NullRowsSkippedAndKept ==
    (\E i \in 1 .. Len(df.rows) : HasNullKey(df.rows[i])) =>
        /\ err = "none"
        /\ \A i \in 1 .. Len(df.rows) :
              HasNullKey(df.rows[i]) =>
                  /\ \A c \in invoked : c[2] # df.rows[i].uuid
                  /\ Covariates(df.rows[i]) = Covariates(Row(0, None, None, None))
        /\ UuidSet(df) = 1 .. PipelineRows
        /\ LET without == Table(BaseCols, FALSE,
                                RowsWithKeys(AsRead(df).rows))
               alone == RunPasses(hist, without, files, call.max_days_gap).df
           IN  \A u \in UuidSet(alone) : Covariates(RowOf(df, u)) = Covariates(RowOf(alone, u))

\* C7: failure isolation. Whatever the state of the per-date source files
\* (absent, unreadable, no time dimension, point outside the raster),
\* enrich_df_with_rasters, enrich_with_precip and enrich_with_worldcover
\* return without raising, and a failure leaves only its own variable null
\* for its own date: every row of a date whose soil file is readable has
\* the soil moisture of that file. Stated for tables whose rows all have
\* coordinates, so that rows with null keys (C6) play no part.
C7_FailureIsolation ==
    (/\ \A i \in 1 .. Len(df.rows) : ~IsNull(df.rows[i].lat) /\ ~IsNull(df.rows[i].lon)
     /\ hist # <<>>
     /\ Last(hist) \in {"enrich_df_with_rasters", "enrich_with_precip", "enrich_with_worldcover"})
    => /\ err = "none"
       /\ \A i \in 1 .. Len(df.rows) :
             LET r == df.rows[i] IN
             (~IsNull(r.date) /\ files.soil[Val(r.date)] = "ok") =>
                 r.soil_moisture = extract_soil_moisture("ok", r.lat, r.lon, Val(r.date))

\* C8: idempotence of enrichment. Running the four enrichment passes again
\* over the table they produced, whether or not it has also gone through
\* fill_missing_ndvi, with the same source files, gives the same table.
C8_EnrichmentIdempotent ==
    (err = "none" /\ Len(hist) >= 4) =>
        LET again == RunPasses(EnrichmentPasses, df, files, call.max_days_gap)
        IN  again.err = "none" /\ again.df = df

----------------------------------------------------------------------------
(* The samplers on their own *)

\* The rasters under test: GridH x GridW pixels of one degree, upper-left
\* corner at (0, GridH degrees).
SampleSources ==
    {[status |-> st, left |-> 0, top |-> GridH * 10, res |-> 10,
      height |-> GridH, width |-> GridW, nodata |-> nd, seed |-> sd] :
        st \in {"ok", "corrupt"}, nd \in {None, Num(255), Num(-9999)},
        sd \in 0 .. (Len(RawValues) - 1)}

\* Pixel centres from two pixels outside the grid on one side to beyond
\* the grid's own height / width on the other, and a null coordinate.
SampleLons == {None} \cup {Num(10 * k + 5) : k \in (-(GridW + 1)) .. (GridW + 1)}
SampleLats == {None} \cup {Num(10 * k + 5) : k \in (-2) .. (2 * GridH)}

InitSample ==
    /\ call \in [fn : {"sample_raster_value", "get_ndvi_from_raster"},
                 src : SampleSources, lon : SampleLons, lat : SampleLats,
                 scale_factor : {DefaultScale, 1},
                 nodata_val : {None, Num(255), Num(0)}]
    /\ df = EmptyTable /\ df0 = EmptyTable /\ files = NoFiles
    /\ Quiet

NextSample == SampleRasterValue \/ GetNdviFromRaster

SpecSample == InitSample /\ [][NextSample]_vars

\* The call under test read a pixel of a readable raster.
SampledAt ==
    /\ call.fn \in {"sample_raster_value", "get_ndvi_from_raster"}
    /\ ret.state = "returned"
    /\ call.src.status = "ok" /\ ~IsNull(call.lon) /\ ~IsNull(call.lat)

CallPixel == PixelIndex(call.src, Val(call.lon), Val(call.lat))

\* C3: a point sample (sample_raster_value or get_ndvi_from_raster) whose
\* pixel index lies outside 0 <= row < height, 0 <= col < width returns
\* NoData: never the value of a grid cell, negative indices included.
C3_OutOfExtentIsNoData ==
    (SampledAt /\ ~InExtent(call.src, CallPixel.row, CallPixel.col))
        => ret.value = None

\* C4: sample_raster_value on an in-bounds pixel with raw value v returns
\* NoData if v equals the source's nodata or the caller's nodata override,
\* and v * scale_factor otherwise.
C4_NodataAndScale ==
    (/\ SampledAt /\ call.fn = "sample_raster_value"
     /\ InExtent(call.src, CallPixel.row, CallPixel.col))
    => LET v == Cell(call.src, CallPixel.row, CallPixel.col) IN
       IF \/ (~IsNull(call.src.nodata) /\ v = Val(call.src.nodata))
          \/ (~IsNull(call.nodata_val) /\ v = Val(call.nodata_val))
       THEN ret.value = None
       ELSE ret.value = Num(v * call.scale_factor)

\* Raw 5000 sampled with scale 1/10000 gave 0.5.
C4_Witness ==
    /\ SampledAt /\ call.fn = "sample_raster_value"
    /\ InExtent(call.src, CallPixel.row, CallPixel.col)
    /\ Cell(call.src, CallPixel.row, CallPixel.col) = 5000
    /\ call.scale_factor = 1
    /\ ret.value = Num(NDVI_SCALE \div 2)

----------------------------------------------------------------------------
(* The tile resolver on its own *)

\* Latitudes and longitudes in tenths of a degree: every multiple of 3
\* degrees of the valid range, and points inside and at the end of a cell.
TileLats == {x \in -900 .. 900 : x % 30 \in {0, 15, 29}}
TileLons == {x \in -1800 .. 1800 : x % 30 \in {0, 27, 29}}

InitTile ==
    /\ call \in [fn : {"get_worldcover_tile_name"}, lat : TileLats, lon : TileLons]
    /\ df = EmptyTable /\ df0 = EmptyTable /\ files = NoFiles
    /\ Quiet

NextTile == GetWorldcoverTileName

SpecTile == InitTile /\ [][NextTile]_vars

\* The number a string of decimal digits denotes (-1 if it is not one).
RECURSIVE DigitsValue(_)
DigitsValue(s) ==
    IF Len(s) = 0 THEN 0
    ELSE LET c == SubSeq(s, Len(s), Len(s))
             rest == DigitsValue(SubSeq(s, 1, Len(s) - 1))
         IN  IF rest < 0 \/ ~(\E d \in 0 .. 9 : ToString(d) = c) THEN -1
             ELSE 10 * rest + (CHOOSE d \in 0 .. 9 : ToString(d) = c)

\* The multiple of 3 degrees o with o <= coord < o + 3.
CellOrigin(coord) ==
    CHOOSE o \in -180 .. 180 : o % 3 = 0 /\ 10 * o <= coord /\ coord < 10 * (o + 3)

TilePrefix == "ESA_WorldCover_10m_2020_v100_"

\* C5: the tile name of (lat, lon) encodes, after the fixed prefix, the
\* hemisphere letter and the zero-padded magnitude of the cell origin of
\* the latitude (2 digits) and of the longitude (3 digits); the origin is
\* the multiple of 3 at or below the coordinate, N/E when it is >= 0; a
\* coordinate on a multiple of 3 has that multiple as origin; the name of
\* (40.5, -105.3) contains N39W108.
C5_TileName ==
    (call.fn = "get_worldcover_tile_name" /\ ret.state = "returned") =>
        LET name == ret.value
            olat == CellOrigin(call.lat)
            olon == CellOrigin(call.lon)
            n == Len(TilePrefix)
        IN  /\ Len(name) = n + 7 + Len("_Map.tif")
            /\ SubSeq(name, 1, n) = TilePrefix
            /\ SubSeq(name, n + 1, n + 1) = (IF olat >= 0 THEN "N" ELSE "S")
            /\ DigitsValue(SubSeq(name, n + 2, n + 3)) = Abs(olat)
            /\ SubSeq(name, n + 4, n + 4) = (IF olon >= 0 THEN "E" ELSE "W")
            /\ DigitsValue(SubSeq(name, n + 5, n + 7)) = Abs(olon)
            /\ SubSeq(name, n + 8, Len(name)) = "_Map.tif"
            /\ (call.lat % 30 = 0 => DigitsValue(SubSeq(name, n + 2, n + 3)) * 10 = Abs(call.lat))
            /\ (call.lon % 30 = 0 => DigitsValue(SubSeq(name, n + 5, n + 7)) * 10 = Abs(call.lon))
            /\ ((call.lat = 405 /\ call.lon = -1053) => SubSeq(name, n + 1, n + 7) = "N39W108")

\* The tile of (40.5, -105.3) was resolved.
C5_Witness ==
    /\ call.fn = "get_worldcover_tile_name" /\ call.lat = 405 /\ call.lon = -1053
    /\ ret = Returned("ESA_WorldCover_10m_2020_v100_N39W108_Map.tif")

----------------------------------------------------------------------------
(* fill_missing_ndvi on its own *)

EnrichedCols ==
    BaseCols \cup {"ndvi", "soil_moisture", "land_cover", "land_cover_label"} \cup PrecipCols

FillDays == {1, 3, 8, 10}
FillGaps == {1, 2, 5, MAIN_MAX_DAYS_GAP}

\* Enriched tables: every row has a date of FillDays or none, one of two
\* locations, and an ndvi that is null or a value of its own.
FillTables ==
    {Table(EnrichedCols, FALSE,
           [i \in 1 .. NRows |->
               [Row(i, d[i], l[i].lat, l[i].lon) EXCEPT
                    !.ndvi = IF has[i] THEN Num(1000 * i) ELSE None]]) :
        d \in [1 .. NRows -> {None} \cup {Num(x) : x \in FillDays}],
        l \in [1 .. NRows -> {LocA, LocB}],
        has \in [1 .. NRows -> BOOLEAN]}

InitFill ==
    /\ df \in FillTables
    /\ df0 = df
    /\ files = NoFiles
    /\ call \in [fn : {"fill_missing_ndvi"}, schedule : {<<"fill_missing_ndvi">>},
                 max_days_gap : FillGaps]
    /\ Quiet

NextFill == FillMissingNdvi

SpecFill == InitFill /\ [][NextFill]_vars

\* The donors of the row at position i of table t: the other rows with a
\* non-null ndvi at exactly the same lat and lon, with a date to compare.
Donors(t, i) ==
    {j \in 1 .. Len(t.rows) :
        /\ j # i
        /\ ~IsNull(t.rows[j].ndvi)
        /\ ~IsNull(t.rows[i].lat) /\ t.rows[j].lat = t.rows[i].lat
        /\ ~IsNull(t.rows[i].lon) /\ t.rows[j].lon = t.rows[i].lon
        /\ ~IsNull(t.rows[i].date) /\ ~IsNull(t.rows[j].date)}

DayGap(t, i, j) == Abs(Val(t.rows[i].date) - Val(t.rows[j].date))

NearestDonors(t, i) ==
    {j \in Donors(t, i) : \A m \in Donors(t, i) : DayGap(t, i, j) <= DayGap(t, i, m)}

\* C1: fill_missing_ndvi fills a row whose ndvi is null with the value of
\* the donor (a row with a non-null ndvi at the same lat and lon) whose
\* date is nearest, if that donor is at most max_days_gap days away; with
\* no donor, or the nearest donor farther away, the row stays null.
C1_FilledFromNearestDonor ==
    (hist = <<"fill_missing_ndvi">> /\ err = "none") =>
        \A i \in 1 .. Len(df0.rows) :
            IsNull(df0.rows[i].ndvi) =>
                LET out == RowOf(df, df0.rows[i].uuid).ndvi
                    best == NearestDonors(df0, i)
                IN  IF \E j \in best : DayGap(df0, i, j) <= call.max_days_gap
                    THEN \E j \in best : out = df0.rows[j].ndvi
                    ELSE out = None

\* The rows with an ndvi before the pass started that may lend it to the
\* row at position i of table t: same lat and lon, at most gap days away.
OriginalDonorsWithin(t, i, gap) ==
    {j \in Donors(t, i) : DayGap(t, i, j) <= gap}

\* The part of C11 about measured rows: a row that had an ndvi before
\* fill_missing_ndvi started has the same ndvi after it.
MeasuredRowsUnchanged ==
    (hist = <<"fill_missing_ndvi">> /\ err = "none") =>
        \A i \in 1 .. Len(df0.rows) :
            ~IsNull(df0.rows[i].ndvi) =>
                RowOf(df, df0.rows[i].uuid).ndvi = df0.rows[i].ndvi

\* C11: within one run of fill_missing_ndvi no row filled during the run
\* is used as a donor: every ndvi the pass wrote is the ndvi of a row that
\* was non-null before the pass started, at the same lat and lon, dated
\* within max_days_gap days of the filled row; and every row that was
\* non-null before the pass keeps its value.
C11_FillProvenance ==
    (hist = <<"fill_missing_ndvi">> /\ err = "none") =>
        \A i \in 1 .. Len(df0.rows) :
            LET out == RowOf(df, df0.rows[i].uuid).ndvi IN
            IF IsNull(df0.rows[i].ndvi)
            THEN ~IsNull(out) =>
                    \E j \in OriginalDonorsWithin(df0, i, call.max_days_gap) :
                        out = df0.rows[j].ndvi
            ELSE out = df0.rows[i].ndvi

----------------------------------------------------------------------------
(* enrich_with_precip on its own *)

PrecipDates == {8, 9}

\* The daily rasters on disk: any of the days 2, 3, 8, 9, with or without
\* the days in between.
PrecipFiles ==
    {[d \in S \cup M |-> "ok"] : S \in SUBSET {2, 3, 8, 9}, M \in {{}, 4 .. 7}}

InitPrecip ==
    /\ df \in InputTables(NRows, {None} \cup {Num(x) : x \in PrecipDates}, {LocA, LocB, LocC})
    /\ df0 = df
    /\ files \in [ndvi : {<<>>}, soil : {<<>>}, precip : PrecipFiles, tiles : {{}}]
    /\ call = [fn |-> "enrich_with_precip", schedule |-> <<"enrich_with_precip">>]
    /\ Quiet

NextPrecip == EnrichWithPrecip

SpecPrecip == InitPrecip /\ [][NextPrecip]_vars

\* C10: after enrich_with_precip, for every row with a date D and every
\* offset k in 0..6, prcp_dk is the point sample of the raster of day D - k
\* at the row's (lon, lat) if that file exists and null if it does not,
\* whatever files exist for the other offsets; no error is raised. With
\* all rows on one date and a raster for offset 0 only, prcp_d0 is that
\* sample for every row and prcp_d1..prcp_d6 are null.
C10_PrecipLookback ==
    (hist = <<"enrich_with_precip">>) =>
        /\ err = "none"
        /\ \A i \in 1 .. Len(df.rows) : \A k \in Offsets :
              LET r == df.rows[i] IN
              ~IsNull(r.date) =>
                  r.prcp[k] =
                      IF (Val(r.date) - k) \in DOMAIN files.precip
                      THEN sample_raster_value(PrecipRaster(files, Val(r.date) - k),
                                               r.lon, r.lat, DefaultScale, None)
                      ELSE None
        /\ \A D \in PrecipDates :
              (/\ \A i \in 1 .. Len(df.rows) : df.rows[i].date = Num(D)
               /\ DOMAIN files.precip = {D})
              => \A i \in 1 .. Len(df.rows) :
                    /\ df.rows[i].prcp[0] =
                          sample_raster_value(PrecipRaster(files, D), df.rows[i].lon,
                                              df.rows[i].lat, DefaultScale, None)
                    /\ \A k \in Offsets \ {0} : IsNull(df.rows[i].prcp[k])

\* Three rows on one date at three distinct places, a raster for offset 0
\* only: prcp_d0 holds a number for each row, the other offsets are null.
C10_Witness ==
    /\ hist = <<"enrich_with_precip">> /\ err = "none"
    /\ Len(df.rows) >= 3
    /\ \A i \in 1 .. Len(df.rows) : df.rows[i].date = Num(9)
    /\ \A i, j \in 1 .. 3 : i # j => <<df.rows[i].lat, df.rows[i].lon>> # <<df.rows[j].lat, df.rows[j].lon>>
    /\ DOMAIN files.precip = {9}
    /\ \A i \in 1 .. Len(df.rows) :
          /\ ~IsNull(df.rows[i].prcp[0])
          /\ \A k \in Offsets \ {0} : IsNull(df.rows[i].prcp[k])

----------------------------------------------------------------------------
(* cluster_environmental on its own *)

\* Numbers of clusters asked for.
ClusterCounts == {1, 2}

FullPrecip == [k \in Offsets |-> Num(0)]

\* A row of an enriched table: complete, or with one or two features null.
ClusterRows(i) ==
    LET full == [Row(i, Num(1), LocA.lat, LocA.lon) EXCEPT
                    !.ndvi = Num(1000 * i), !.soil_moisture = Num(1400), !.prcp = FullPrecip]
    IN  {full,
         [full EXCEPT !.ndvi = None],
         [full EXCEPT !.prcp[3] = None],
         [full EXCEPT !.soil_moisture = None, !.prcp[6] = None]}

ClusterTables ==
    {Table(EnrichedCols, FALSE, rows) :
        rows \in {f \in [1 .. NRows -> UNION {ClusterRows(i) : i \in 1 .. NRows}] :
                    \A i \in 1 .. NRows : f[i] \in ClusterRows(i)}}

InitCluster ==
    /\ df \in ClusterTables
    /\ df0 = df
    /\ files = NoFiles
    /\ call \in [fn : {"cluster_environmental"}, schedule : {<<"cluster_environmental">>},
                 n_clusters : ClusterCounts]
    /\ Quiet

NextCluster == ClusterEnvironmental

SpecCluster == InitCluster /\ [][NextCluster]_vars

====
